---- MODULE Spec2Model ----
(***************************************************************************)
(* Per-page profile image cache of the portfolio site, in its two          *)
(* implementations:                                                        *)
(*   - the React hook usePageImage with its callers ImageUploader and Hero *)
(*     (src/Home.jsx), routed by react-router;                             *)
(*   - the plain script of the static pages (src/assets/js/main.js).       *)
(* Strings are TLA+ strings; localStorage is a function whose domain is    *)
(* the set of keys that hold an item.                                      *)
(***************************************************************************)
EXTENDS Integers, Sequences, FiniteSets, TLC

VARIABLES
    host,             \* which implementation runs: "react", "script" or "pair"
    storeMode,        \* "ok", "full" (setItem throws) or "blocked" (every call throws)
    last,             \* the last event: [op, arg, prev, same]
    \* --- React application (src/Home.jsx)
    pathname,         \* useLocation().pathname
    rMounted,         \* the React tree is rendered (FALSE after an uncaught effect error)
    src,              \* ImageUploader's usePageImage state
    heroSrc,          \* Hero's usePageImage state (Home only)
    rStorage,         \* localStorage of the React application's origin
    rReaders,         \* FileReaders in flight: [key, file, live]
    rOut,             \* what the last React handler did: [wrote, threw]
    \* --- plain script (src/assets/js/main.js)
    page,             \* const page
    backgroundImage,  \* preview.style.backgroundImage
    sStorage,         \* localStorage of the static site's origin
    sReaders,         \* FileReaders in flight: [key, file, live]
    sOut              \* what the last script handler did: [wrote, threw]

rVars == <<pathname, rMounted, src, heroSrc, rStorage, rReaders, rOut>>
sVars == <<page, backgroundImage, sStorage, sReaders, sOut>>
vars == <<host, storeMode, last, rVars, sVars>>

----------------------------------------------------------------------------
(* Bounds *)

\* Largest number of spaces put on each side of a typed URL.
MaxPad == 1
\* Largest number of file reads in flight in one implementation.
MaxPending == 1

----------------------------------------------------------------------------
(* Strings *)

RECURSIVE Pad(_)
Pad(n) == IF n = 0 THEN "" ELSE " " \o Pad(n - 1)

\* What the user can have typed into the URL field when pressing Set.
Cores == {"", "a"}
UrlInputs == {Pad(i) \o c \o Pad(i) : i \in 0..MaxPad, c \in Cores}

\* Files the user can select.
Files == {"x"}

\* FileReader.readAsDataURL: reader.result on load.
readAsDataURL(file) == "data:" \o file

\* JavaScript truthiness of a string.
Truthy(s) == s # ""

RECURSIVE trimStart(_)
trimStart(s) ==
    IF Len(s) > 0 /\ SubSeq(s, 1, 1) = " "
    THEN trimStart(SubSeq(s, 2, Len(s)))
    ELSE s

RECURSIVE trimEnd(_)
trimEnd(s) ==
    IF Len(s) > 0 /\ SubSeq(s, Len(s), Len(s)) = " "
    THEN trimEnd(SubSeq(s, 1, Len(s) - 1))
    ELSE s

\* trim that forgets the trailing spaces.
trimLeadingOnly(s) == trimStart(s)

\* String.prototype.trim
trim(s) == trimEnd(trimStart(s))

----------------------------------------------------------------------------
(* localStorage *)

StoreModes == {"ok", "full", "blocked"}

getThrows == storeMode = "blocked"
setThrows == storeMode \in {"full", "blocked"}
removeThrows == storeMode = "blocked"

hasItem(st, k) == k \in DOMAIN st
setItem(st, k, v) == [x \in (DOMAIN st) \cup {k} |-> IF x = k THEN v ELSE st[x]]
\* removeItem that leaves the item in place.
removeItemKeeps(st, k) == st
removeItem(st, k) == [x \in (DOMAIN st) \ {k} |-> st[x]]

EmptyStorage == [x \in {} |-> ""]

\* if (cached) set(cached): the value shown after reading key k, starting from cur.
LoadCached(st, k, cur) ==
    IF hasItem(st, k) /\ Truthy(st[k]) THEN st[k] ELSE cur

Out(w, t) == [wrote |-> w, threw |-> t]
NoOut == Out(FALSE, FALSE)

Reader(k, f, l) == [key |-> k, file |-> f, live |-> l]

----------------------------------------------------------------------------
(* React application: src/Home.jsx *)

\* Locations the browser can show. react-router matches a route whether or
\* not the location ends in a slash, so "/education" and "/education/" render
\* the same element.
Paths == {"/", "/education", "/education/"}

stripSlash(p) ==
    IF Len(p) > 1 /\ SubSeq(p, Len(p), Len(p)) = "/"
    THEN SubSeq(p, 1, Len(p) - 1)
    ELSE p

\* <Routes>: the page element rendered for a location.
RouteOf(p) ==
    IF stripSlash(p) = "/" THEN "Home"
    ELSE IF stripSlash(p) = "/education" THEN "Education"
    ELSE "none"

\* const key = `profile-image:${pathname || "/"}`
key(p) == "profile-image:" \o (IF Truthy(p) THEN p ELSE "/")

\* useEffect(() => { const cached = localStorage.getItem(key);
\*                   if (cached) setSrc(cached); }, [key])
\* as the state of a hook instance that held cur before the effect ran.
useEffect(st, k, cur) == LoadCached(st, k, cur)

\* The effect's getItem is not guarded: when it throws, the error is uncaught
\* in the commit phase and React unmounts the whole tree.
effectThrows == getThrows

\* State of the hooks after the effects of an activation of location p have
\* run; base/baseHero are the hook states the effects start from ("" for a
\* freshly mounted instance).
ActSrc(st, p, base) ==
    IF effectThrows THEN "" ELSE useEffect(st, key(p), base)
ActHero(st, p, baseHero) ==
    IF effectThrows \/ RouteOf(p) # "Home" THEN ""
    ELSE useEffect(st, key(p), baseHero)

KillReaders(rs) == {Reader(r.key, r.file, FALSE) : r \in rs}

\* Full page load of location p (address bar, reload): a new document, so
\* every hook instance is new and no FileReader of the old document survives.
ROpen(p) ==
    /\ pathname' = p
    /\ rMounted' = ~effectThrows
    /\ src' = ActSrc(rStorage, p, "")
    /\ heroSrc' = ActHero(rStorage, p, "")
    /\ rReaders' = {}
    /\ rStorage' = rStorage
    /\ rOut' = Out(FALSE, effectThrows)

\* Client-side navigation (NavLink, history) to another location. A location
\* of another route mounts new hook instances (the old ones are unmounted, so
\* setSrc from their readers no longer shows); a location of the same route
\* keeps the instances and only re-runs the effect, because key changed.
RNavigate(p) ==
    /\ rMounted
    /\ p # pathname
    /\ LET remount == RouteOf(p) # RouteOf(pathname) IN
        /\ pathname' = p
        /\ rMounted' = ~effectThrows
        /\ src' = ActSrc(rStorage, p, IF remount THEN "" ELSE src)
        /\ heroSrc' = ActHero(rStorage, p, IF remount THEN "" ELSE heroSrc)
        /\ rReaders' = IF remount \/ effectThrows THEN KillReaders(rReaders)
                       ELSE rReaders
    /\ rStorage' = rStorage
    /\ rOut' = Out(FALSE, effectThrows)

\* const setFromUrl = (url) => { setSrc(url); localStorage.setItem(key, url); }
setFromUrl(url) ==
    /\ src' = url
    /\ rStorage' = IF setThrows THEN rStorage
                   ELSE setItem(rStorage, key(pathname), url)
    /\ rOut' = Out(TRUE, setThrows)
    /\ UNCHANGED <<pathname, rMounted, heroSrc, rReaders>>

\* <button onClick={() => tempUrl && setFromUrl(tempUrl)}>Set</button>
RSetFromUrl(tempUrl) ==
    /\ rMounted
    /\ IF Truthy(tempUrl)
       THEN setFromUrl(tempUrl)
       ELSE /\ rOut' = NoOut
            /\ UNCHANGED <<pathname, rMounted, src, heroSrc, rStorage, rReaders>>

\* clear that also drops the reads in flight.
clearAbortingReads ==
    /\ rMounted
    /\ src' = ""
    /\ rStorage' = IF removeThrows THEN rStorage
                   ELSE removeItem(rStorage, key(pathname))
    /\ rOut' = Out(TRUE, removeThrows)
    /\ rReaders' = {}
    /\ UNCHANGED <<pathname, rMounted, heroSrc>>

\* const clear = () => { setSrc(""); localStorage.removeItem(key); }
clear ==
    /\ rMounted
    /\ src' = ""
    /\ rStorage' = IF removeThrows THEN rStorage
                   ELSE removeItem(rStorage, key(pathname))
    /\ rOut' = Out(TRUE, removeThrows)
    /\ UNCHANGED <<pathname, rMounted, heroSrc, rReaders>>

\* onFile that shows the image before the read has completed.
onFileShowsAtOnce(file) ==
    /\ rMounted
    /\ Cardinality(rReaders) < MaxPending
    /\ rReaders' = rReaders \cup {Reader(key(pathname), file, TRUE)}
    /\ src' = readAsDataURL(file)
    /\ rOut' = NoOut
    /\ UNCHANGED <<pathname, rMounted, heroSrc, rStorage>>

\* const onFile = (file) => { const reader = new FileReader(); ...
\*                            reader.readAsDataURL(file); }
onFile(file) ==
    /\ rMounted
    /\ Cardinality(rReaders) < MaxPending
    /\ rReaders' = rReaders \cup {Reader(key(pathname), file, TRUE)}
    /\ rOut' = NoOut
    /\ UNCHANGED <<pathname, rMounted, src, heroSrc, rStorage>>

\* reader.onload = () => { const dataUrl = reader.result; setSrc(dataUrl);
\*                         localStorage.setItem(key, dataUrl); }
\* key and setSrc are the ones of the render that called onFile.
ROnload(r) ==
    /\ r \in rReaders
    /\ LET dataUrl == readAsDataURL(r.file) IN
        /\ src' = IF r.live THEN dataUrl ELSE src
        /\ rStorage' = IF setThrows THEN rStorage
                       ELSE setItem(rStorage, r.key, dataUrl)
    /\ rReaders' = rReaders \ {r}
    /\ rOut' = Out(TRUE, setThrows)
    /\ UNCHANGED <<pathname, rMounted, heroSrc>>

\* The read fails: FileReader fires error, for which no handler is set.
RReadError(r) ==
    /\ r \in rReaders
    /\ rReaders' = rReaders \ {r}
    /\ rOut' = NoOut
    /\ UNCHANGED <<pathname, rMounted, src, heroSrc, rStorage>>

\* {src && <img src={src} .../>} in ImageUploader
UploaderImg == IF rMounted /\ Truthy(src) THEN src ELSE ""
\* {src ? <img src={src} .../> : <div>Upload a per-page photo ...</div>} in Hero
HeroImg == IF rMounted /\ Truthy(heroSrc) THEN heroSrc ELSE ""

----------------------------------------------------------------------------
(* Plain script: src/assets/js/main.js *)

\* data-page attribute of <body>; "" stands for a missing attribute.
DataPages == {"", "home", "education"}

\* const page = document.body.getAttribute('data-page') || 'home'
pageOf(attr) == IF Truthy(attr) THEN attr ELSE "home"

\* const LS_KEY = `ant-portfolio-photo:${page}`
LS_KEY(pg) == "ant-portfolio-photo:" \o pg

\* preview.style.backgroundImage = url ? `url("${url}")` : 'none'
setPreview(url) == IF Truthy(url) THEN "url(\"" \o url \o "\")" ELSE "none"

\* The image a backgroundImage value shows ("" when it shows none).
PreviewImg(bg) ==
    IF bg \in {"", "none"} THEN "" ELSE SubSeq(bg, 6, Len(bg) - 2)

\* try { ... } catch (e) {}: whether an exception thrown inside leaves the handler.
tryCatch(throws) == FALSE

\* try { const cached = localStorage.getItem(LS_KEY);
\*       if (cached) setPreview(cached); } catch (e) {}
\* on a new document, whose preview has no inline background yet ("").
cachedPreview(st, pg) ==
    IF ~getThrows /\ Truthy(LoadCached(st, LS_KEY(pg), ""))
    THEN setPreview(LoadCached(st, LS_KEY(pg), ""))
    ELSE ""

\* Load of a page whose <body> has data-page attr: the script runs once, on a
\* new document (no reader in flight).
SOpen(attr) ==
    /\ page' = pageOf(attr)
    /\ backgroundImage' = cachedPreview(sStorage, pageOf(attr))
    /\ sReaders' = {}
    /\ sStorage' = sStorage
    /\ sOut' = Out(FALSE, tryCatch(getThrows))

\* setUrlBtn click: const val = urlInput.value.trim(); if (!val) return;
\* setPreview(val); try { localStorage.setItem(LS_KEY, val); } catch (e) {}
SSetFromUrl(value) ==
    LET val == trim(value) IN
    IF ~Truthy(val)
    THEN /\ sOut' = NoOut
         /\ UNCHANGED <<page, backgroundImage, sStorage, sReaders>>
    ELSE /\ backgroundImage' = setPreview(val)
         /\ sStorage' = IF setThrows THEN sStorage
                        ELSE setItem(sStorage, LS_KEY(page), val)
         /\ sOut' = Out(TRUE, tryCatch(setThrows))
         /\ UNCHANGED <<page, sReaders>>

\* clearBtn click: setPreview('');
\* try { localStorage.removeItem(LS_KEY); } catch (e) {}
SClear ==
    /\ backgroundImage' = setPreview("")
    /\ sStorage' = IF removeThrows THEN sStorage
                   ELSE removeItem(sStorage, LS_KEY(page))
    /\ sOut' = Out(TRUE, tryCatch(removeThrows))
    /\ UNCHANGED <<page, sReaders>>

\* fileInput change: const reader = new FileReader(); reader.onload = ...;
\* reader.readAsDataURL(file)
SOnFile(file) ==
    /\ Cardinality(sReaders) < MaxPending
    /\ sReaders' = sReaders \cup {Reader(LS_KEY(page), file, TRUE)}
    /\ sOut' = NoOut
    /\ UNCHANGED <<page, backgroundImage, sStorage>>

\* reader.onload = () => { const dataUrl = reader.result; setPreview(dataUrl);
\*   try { localStorage.setItem(LS_KEY, dataUrl); } catch (e) {} }
SOnload(r) ==
    /\ r \in sReaders
    /\ LET dataUrl == readAsDataURL(r.file) IN
        /\ backgroundImage' = setPreview(dataUrl)
        /\ sStorage' = IF setThrows THEN sStorage
                       ELSE setItem(sStorage, r.key, dataUrl)
    /\ sReaders' = sReaders \ {r}
    /\ sOut' = Out(TRUE, tryCatch(setThrows))
    /\ UNCHANGED page

\* The read fails: FileReader fires error, for which no handler is set.
SReadError(r) ==
    /\ r \in sReaders
    /\ sReaders' = sReaders \ {r}
    /\ sOut' = NoOut
    /\ UNCHANGED <<page, backgroundImage, sStorage>>

----------------------------------------------------------------------------
(* One implementation at a time *)

\* An event: arg is the text in the URL field when Set is pressed; prev is,
\* for a completed read, the operation it follows.
Ev(op, arg) ==
    [op |-> op, arg |-> arg,
     prev |-> IF op = "Onload" THEN last.op ELSE "none",
     same |-> FALSE]

\* A page load: prev and arg are the operation it follows and the text that
\* one set, same tells whether the page loaded is the one that was active.
OpenEv(reload) ==
    [op |-> "Open",
     arg |-> IF last.op = "SetFromUrl" THEN last.arg ELSE "",
     prev |-> last.op,
     same |-> reload]

FirstEv == [op |-> "Open", arg |-> "", prev |-> "none", same |-> FALSE]

\* What an earlier session can have left in localStorage.
InitVals == {"a"}
Storages(keys) ==
    UNION {[ks -> InitVals] : ks \in SUBSET keys}

RIdle ==
    /\ pathname = "/" /\ rMounted = FALSE /\ src = "" /\ heroSrc = ""
    /\ rStorage = EmptyStorage /\ rReaders = {} /\ rOut = NoOut
SIdle ==
    /\ page = "home" /\ backgroundImage = ""
    /\ sStorage = EmptyStorage /\ sReaders = {} /\ sOut = NoOut

\* The React application right after the first load of a location.
RInit ==
    /\ pathname \in Paths
    /\ rStorage \in Storages({key(p) : p \in Paths})
    /\ rMounted = ~effectThrows
    /\ src = ActSrc(rStorage, pathname, "")
    /\ heroSrc = ActHero(rStorage, pathname, "")
    /\ rReaders = {}
    /\ rOut = Out(FALSE, effectThrows)

\* The script right after the first load of a page.
SInit ==
    /\ page \in {pageOf(a) : a \in DataPages}
    /\ sStorage \in Storages({LS_KEY(pageOf(a)) : a \in DataPages})
    /\ backgroundImage = cachedPreview(sStorage, page)
    /\ sReaders = {}
    /\ sOut = NoOut

Init ==
    /\ host \in {"react", "script"}
    /\ storeMode \in StoreModes
    /\ last = FirstEv
    /\ IF host = "react" THEN RInit /\ SIdle ELSE RIdle /\ SInit

RFrame == host = "react" /\ UNCHANGED <<host, storeMode, sVars>>
SFrame == host = "script" /\ UNCHANGED <<host, storeMode, rVars>>

ReactOpen ==
    \E p \in Paths : ROpen(p) /\ last' = OpenEv(p = pathname) /\ RFrame
ReactNavigate ==
    \E p \in Paths : RNavigate(p) /\ last' = Ev("Navigate", "") /\ RFrame
ReactSetFromUrl ==
    \E s \in UrlInputs : RSetFromUrl(s) /\ last' = Ev("SetFromUrl", s) /\ RFrame
ReactClear ==
    clear /\ last' = Ev("Clear", "") /\ RFrame
ReactOnFile ==
    \E f \in Files : onFile(f) /\ last' = Ev("OnFile", "") /\ RFrame
ReactOnload ==
    \E r \in rReaders : ROnload(r) /\ last' = Ev("Onload", "") /\ RFrame
ReactReadError ==
    \E r \in rReaders : RReadError(r) /\ last' = Ev("ReadError", "") /\ RFrame

ScriptOpen ==
    \E a \in DataPages :
        SOpen(a) /\ last' = OpenEv(pageOf(a) = page) /\ SFrame
ScriptSetFromUrl ==
    \E s \in UrlInputs : SSetFromUrl(s) /\ last' = Ev("SetFromUrl", s) /\ SFrame
ScriptClear ==
    SClear /\ last' = Ev("Clear", "") /\ SFrame
ScriptOnFile ==
    \E f \in Files : SOnFile(f) /\ last' = Ev("OnFile", "") /\ SFrame
ScriptOnload ==
    \E r \in sReaders : SOnload(r) /\ last' = Ev("Onload", "") /\ SFrame
ScriptReadError ==
    \E r \in sReaders : SReadError(r) /\ last' = Ev("ReadError", "") /\ SFrame

Next ==
    \/ ReactOpen
    \/ ReactNavigate
    \/ ReactSetFromUrl
    \/ ReactClear
    \/ ReactOnFile
    \/ ReactOnload
    \/ ReactReadError
    \/ ScriptOpen
    \/ ScriptSetFromUrl
    \/ ScriptClear
    \/ ScriptOnFile
    \/ ScriptOnload
    \/ ScriptReadError

Spec == Init /\ [][Next]_vars

----------------------------------------------------------------------------
(* What is observed of the implementation that runs *)

\* Its localStorage, the key of the active page, the image on show (the
\* "visible state": the uploader preview / #photoPreview), its readers in
\* flight and the outcome of its last handler.
Storage == IF host = "react" THEN rStorage ELSE sStorage
PageKey == IF host = "react" THEN key(pathname) ELSE LS_KEY(page)
Visible == IF host = "react" THEN UploaderImg ELSE PreviewImg(backgroundImage)
Readers == IF host = "react" THEN rReaders ELSE sReaders
Outcome == IF host = "react" THEN rOut ELSE sOut

\* The stored entry under k: <<v>> when present, <<>> when absent.
Entry(st, k) == IF hasItem(st, k) THEN <<st[k]>> ELSE <<>>

AllKeys ==
    {key(p) : p \in Paths} \cup {LS_KEY(pageOf(a)) : a \in DataPages}

\* The reader whose completion (or failure) this step is.
Completed == CHOOSE r \in Readers : r \notin Readers'

----------------------------------------------------------------------------
(* C1 *)

KeysInjective ==
    /\ \A p, q \in Paths : p # q => key(p) # key(q)
    /\ \A p, q \in {pageOf(a) : a \in DataPages} : p # q => LS_KEY(p) # LS_KEY(q)

\* The key of the page a step operates on: the page being loaded, the page a
\* finished read was started on, else the active page.
OpKey ==
    IF last'.op \in {"Onload", "ReadError"} THEN Completed.key ELSE PageKey'

\* No step changes the stored entry of a page other than the one it operates on.
C1_EntriesOfOtherPagesKept ==
    [][\A k \in AllKeys \ {OpKey} : Entry(Storage', k) = Entry(Storage, k)]_vars

\* C1: page isolation. The storage key is an injective function of the page
\* identifier, and an operation on page p1, the later completion of its file
\* read included, changes neither the stored entry of another page p2 nor the
\* image shown for p2 (p2 being the active page when the read completes).
C1_PageIsolation ==
    /\ KeysInjective
    /\ C1_EntriesOfOtherPagesKept
    /\ [][(last'.op = "Onload" /\ Completed.key # PageKey) => Visible' = Visible]_vars

----------------------------------------------------------------------------
(* C2 *)

\* C2: right after the load that an activation of a page triggers (store
\* readable), the image shown is the value stored under the page's key, and
\* none when nothing is stored under it, whatever was shown before.
C2_LoadOnActivation ==
    (last.op \in {"Open", "Navigate"} /\ ~getThrows) =>
        Visible = (IF hasItem(Storage, PageKey) THEN Storage[PageKey] ELSE "")

----------------------------------------------------------------------------
(* C3, C4 *)

\* u consists of spaces only (or is empty).
Blank(u) == \E n \in 0..Len(u) : u = Pad(n)

\* v is u without its leading and trailing spaces.
IsTrimOf(v, u) ==
    /\ \E i, j \in 0..Len(u) : u = Pad(i) \o v \o Pad(j)
    /\ v = "" \/ (SubSeq(v, 1, 1) # " " /\ SubSeq(v, Len(v), Len(v)) # " ")

\* u has content other than spaces: both implementations take SetFromUrl(u) up.
Accepted(u) == ~Blank(u)

\* v is what SetFromUrl(u) puts on show: u itself in the React application,
\* u without its surrounding spaces in the script.
ShownFor(u, v) == IF host = "react" THEN v = u ELSE IsTrimOf(v, u)

\* A step that reloads the active page.
Reload == last'.op = "Open" /\ PageKey' = PageKey

C4_BlankUrlNoOp ==
    [][(last'.op = "SetFromUrl" /\ Blank(last'.arg))
          => /\ Visible' = Visible
             /\ Storage' = Storage
             /\ ~Outcome'.wrote]_vars

----------------------------------------------------------------------------
(* C5 *)

\* C5: after Clear no image is shown and (removeItem not throwing) the page
\* has no stored entry; a reload of the same page that follows at once shows
\* no image and finds no entry either.
C5_ClearThenLoad ==
    [][/\ last'.op = "Clear"
            => /\ Visible' = ""
               /\ ~removeThrows => ~hasItem(Storage', PageKey')
       /\ (last.op = "Clear" /\ Reload)
            => /\ Visible' = ""
               /\ ~removeThrows => ~hasItem(Storage', PageKey')]_vars

\* A page reloaded right after Clear, with entries of other pages left.
C5_Witness ==
    /\ last.op = "Open" /\ last.same /\ last.prev = "Clear"
    /\ storeMode = "ok"
    /\ Visible = ""
    /\ ~hasItem(Storage, PageKey)
    /\ Storage # EmptyStorage

----------------------------------------------------------------------------
(* C6, C8 *)

\* This step completes a read started on the page that is still active, in a
\* component that is still mounted.
OnloadHere ==
    last'.op = "Onload" /\ Completed.live /\ Completed.key = PageKey

\* The completed read put its data URL on show and (setItem not throwing)
\* into the entry of the page.
DataUrlLanded ==
    /\ Visible' = "data:" \o Completed.file
    /\ ~setThrows => Entry(Storage', PageKey') = <<Visible'>>

\* C6: with a read in flight, SetFromUrl and Clear take effect at once and
\* leave the read in flight; when the read completes, whatever ran since it
\* started, its data URL overwrites the image shown and the stored entry.
C6_LastWriteWins ==
    [][/\ last'.op \in {"SetFromUrl", "Clear"} => Readers' = Readers
       /\ (Readers # {} /\ last'.op = "SetFromUrl" /\ Accepted(last'.arg))
            => /\ ShownFor(last'.arg, Visible')
               /\ ~setThrows => Entry(Storage', PageKey') = <<Visible'>>
       /\ (Readers # {} /\ last'.op = "Clear")
            => /\ Visible' = ""
               /\ ~removeThrows => ~hasItem(Storage', PageKey')
       /\ OnloadHere => DataUrlLanded]_vars

\* A read completed right after a Clear that ran while it was in flight.
C6_Witness ==
    /\ last.op = "Onload" /\ last.prev = "Clear"
    /\ storeMode = "ok"
    /\ Visible = "data:x"
    /\ Entry(Storage, PageKey) = <<"data:x">>

\* C8: selecting a file changes neither the image shown nor the store; the
\* completion of the read sets both to the data URL, once (the reader is no
\* longer in flight afterwards); a read that fails changes neither.
C8_SetFromFile ==
    [][/\ last'.op \in {"OnFile", "ReadError"}
            => Visible' = Visible /\ Storage' = Storage
       /\ last'.op = "OnFile" => Readers \subseteq Readers'
       /\ OnloadHere
            => /\ DataUrlLanded
               /\ Readers' = Readers \ {Completed}]_vars

\* A read completed right after it was started, on an empty page.
C8_Witness ==
    /\ last.op = "Onload" /\ last.prev = "OnFile"
    /\ Visible = "data:x"
    /\ Storage = (PageKey :> "data:x")

----------------------------------------------------------------------------
(* C7 *)

\* C7: with the store unavailable no handler lets an exception out and the
\* page stays rendered; the store is left as it is, a load shows no image,
\* and SetFromUrl, Clear and a completed read still change the image shown.
C7_StoreUnavailable ==
    [][storeMode = "blocked" =>
        /\ ~Outcome'.threw
        /\ host = "react" => rMounted'
        /\ Storage' = Storage
        /\ last'.op = "Open" => Visible' = ""
        /\ last'.op = "Clear" => Visible' = ""
        /\ (last'.op = "SetFromUrl" /\ Accepted(last'.arg))
              => ShownFor(last'.arg, Visible')
        /\ OnloadHere => Visible' = "data:" \o Completed.file]_vars

----------------------------------------------------------------------------
(* C10 *)

\* C10: every place that renders the page image shows the visible state of
\* the page: the uploader preview and, on Home, the hero picture show src;
\* #photoPreview shows an image exactly when its background is a url(...).
C10_DisplayContract ==
    /\ (host = "react" /\ rMounted)
          => /\ UploaderImg = src
             /\ RouteOf(pathname) = "Home" => HeroImg = src
    /\ host = "script"
          => \/ backgroundImage \in {"", "none"}
             \/ /\ Truthy(PreviewImg(backgroundImage))
                /\ backgroundImage = setPreview(PreviewImg(backgroundImage))

----------------------------------------------------------------------------
(* Both implementations side by side *)

Pages == {"home", "education"}

\* The location of the React application that stands for a page of the static site.
PathOf(pg) == IF pg = "home" THEN "/" ELSE "/" \o pg

\* The same entries in both stores, up to the key prefix.
PairInit ==
    /\ host = "pair"
    /\ storeMode \in StoreModes
    /\ last = FirstEv
    /\ page \in Pages
    /\ pathname = PathOf(page)
    /\ \E ks \in SUBSET Pages :
          /\ rStorage = [k \in {key(PathOf(pg)) : pg \in ks} |-> "a"]
          /\ sStorage = [k \in {LS_KEY(pg) : pg \in ks} |-> "a"]
    /\ rMounted = ~effectThrows
    /\ src = ActSrc(rStorage, pathname, "")
    /\ heroSrc = ActHero(rStorage, pathname, "")
    /\ rReaders = {}
    /\ rOut = Out(FALSE, effectThrows)
    /\ backgroundImage = cachedPreview(sStorage, page)
    /\ sReaders = {}
    /\ sOut = NoOut

\* A user event reaches the React application only while it is rendered.
IfMounted(A) == IF rMounted THEN A ELSE UNCHANGED rVars

PFrame == UNCHANGED <<host, storeMode>>

\* The page is loaded afresh in both.
PairOpen ==
    \E pg \in Pages :
        ROpen(PathOf(pg)) /\ SOpen(pg) /\ last' = OpenEv(pg = page) /\ PFrame
\* The user follows a link to another page: client-side navigation in the
\* React application, a page load in the static site.
PairNavigate ==
    \E pg \in Pages :
        RNavigate(PathOf(pg)) /\ SOpen(pg) /\ last' = Ev("Navigate", "") /\ PFrame
PairSetFromUrl ==
    \E s \in UrlInputs :
        /\ IfMounted(RSetFromUrl(s))
        /\ SSetFromUrl(s)
        /\ last' = Ev("SetFromUrl", s) /\ PFrame
PairClear ==
    IfMounted(clear) /\ SClear /\ last' = Ev("Clear", "") /\ PFrame
PairOnFile ==
    \E f \in Files :
        /\ IfMounted(onFile(f))
        /\ SOnFile(f)
        /\ last' = Ev("OnFile", "") /\ PFrame
\* The reads of a file complete, in each implementation that has one in flight.
PairOnload ==
    \E f \in Files :
        /\ \E r \in rReaders \cup sReaders : r.file = f
        /\ IF \E r \in rReaders : r.file = f
           THEN \E r \in rReaders : r.file = f /\ ROnload(r)
           ELSE UNCHANGED rVars
        /\ IF \E r \in sReaders : r.file = f
           THEN \E r \in sReaders : r.file = f /\ SOnload(r)
           ELSE UNCHANGED sVars
        /\ last' = Ev("Onload", "") /\ PFrame
PairReadError ==
    \E f \in Files :
        /\ \E r \in rReaders \cup sReaders : r.file = f
        /\ IF \E r \in rReaders : r.file = f
           THEN \E r \in rReaders : r.file = f /\ RReadError(r)
           ELSE UNCHANGED rVars
        /\ IF \E r \in sReaders : r.file = f
           THEN \E r \in sReaders : r.file = f /\ SReadError(r)
           ELSE UNCHANGED sVars
        /\ last' = Ev("ReadError", "") /\ PFrame

PairNext ==
    \/ PairOpen
    \/ PairNavigate
    \/ PairSetFromUrl
    \/ PairClear
    \/ PairOnFile
    \/ PairOnload
    \/ PairReadError

SpecPair == PairInit /\ [][PairNext]_vars

----------------------------------------------------------------------------
(* C9 *)

\* C9: driven by the same events from the same store contents, the React
\* application and the script show the same image and hold, up to the key
\* prefix, the same stored entries after every step.
C9_SameBehaviour ==
    /\ UploaderImg = PreviewImg(backgroundImage)
    /\ \A pg \in Pages :
          Entry(rStorage, key(PathOf(pg))) = Entry(sStorage, LS_KEY(pg))

----------------------------------------------------------------------------
(* C11 *)

\* This step completes a read that was started on a page other than the one
\* now active.
OnloadElsewhere == last'.op = "Onload" /\ Completed.key # PageKey

\* The completion of a read writes no stored entry but the one of the page it
\* was started on.
C11_OnlyOwnEntryWritten ==
    [][last'.op = "Onload" =>
          \A k \in AllKeys \ {Completed.key} :
              Entry(Storage', k) = Entry(Storage, k)]_vars

\* C11: a read started on page p that completes while another page q is
\* active writes the stored entry of p only: the stored entry of q and the
\* image shown for q are as they were before the completion.
C11_CompletionElsewhere ==
    [][OnloadElsewhere =>
          /\ Entry(Storage', PageKey') = Entry(Storage, PageKey)
          /\ \A k \in AllKeys \ {Completed.key} :
                Entry(Storage', k) = Entry(Storage, k)
          /\ PageKey' = PageKey
          /\ Visible' = Visible]_vars

====
